---- MODULE Spec2Model ----
(***************************************************************************)
(* Event-flow: the registration and access-control core.                   *)
(*                                                                         *)
(* The store is the Postgres schema of                                     *)
(* supabase/migrations/20250120120000_event_management_schema.sql with its *)
(* row-level-security policies; handle_new_user is the trigger function of *)
(* that migration until 20250727120000_fix_user_creation_trigger.sql       *)
(* replaces it.  The clients are the React handlers handleRegister,        *)
(* handleCancelBooking, handleDeleteEvent and handleSubmit; every other    *)
(* request is a request of an authenticated caller straight to a table,    *)
(* which the policies accept or filter.                                    *)
(***************************************************************************)
EXTENDS Integers, FiniteSets, Sequences, TLC

\* SQL NULL, a JSON key that is absent, a JavaScript undefined.
Null == "null"
\* No row under a primary key; no event or ticket chosen yet.
NoRow == [absent |-> TRUE]

----------------------------------------------------------------------------
\* Bounds of the model.

\* ticket_number values a client can generate
MaxTickets == 3
\* largest capacity an event is created with
MaxCapacity == 2
\* rows event_registrations ever receives (uuid_generate_v4 is a counter here)
MaxRegs == 3
\* rows events ever receives
MaxEvents == 2
MaxAssignments == 3
MaxTasks == 2

----------------------------------------------------------------------------
\* Identities.  Organizers, Volunteers and Attendees name the identities by
\* the role their Profile is provisioned with; NewIds sign up in SpecIdentity.

Organizers == {"o1", "o2"}
Volunteers == {"v1"}
Attendees == {"a1", "a2", "a3"}
NewIds == {"n1", "n2"}
Ids == Organizers \cup Volunteers \cup Attendees \cup NewIds

Roles == {"organizer", "volunteer", "attendee"}
EventStatuses == {"draft", "published", "ongoing", "completed", "cancelled"}
RegistrationStatuses == {"pending", "confirmed", "cancelled", "attended"}

Tickets == 1..MaxTickets
AssignmentIds == 1..MaxAssignments
TaskIds == 1..MaxTasks
TaskStatuses == {"pending", "in_progress", "completed"}
Times == {"t1", "t2"}
Titles == {"Desk", "Stage"}
EventIds == 1..MaxEvents
RegIds == 1..MaxRegs

\* A client is a browser tab (1 or 2) of an attendee showing the event
\* detail modal.
MainClients == {<<a, 1>> : a \in Attendees}
Clients == MainClients \cup {<<"a1", 2>>}

VARIABLES
    users,        \* auth.users: id -> row (email, raw_user_meta_data) or NoRow
    profiles,     \* public.profiles: id -> row or NoRow
    events,       \* public.events: id -> row or NoRow
    regs,         \* public.event_registrations: set of rows
    assignments,  \* public.volunteer_assignments: set of rows
    nextEvent,    \* events.id of the next insert
    nextReg,      \* event_registrations.id of the next insert
    booking,      \* per client: the handleRegister call of its modal
    hnu,          \* the handle_new_user definition in force
    last,         \* the response to the most recent request
    issued,       \* history: (id, ticket_number) of every registration ever created
    freed,        \* history: events that saw a confirmed booking cancelled while exactly full
    session,      \* the browser: what useAuth() returns, the route and the page shown
    tickets,      \* the browser: the tickets state of TicketsPage
    tasks         \* public.event_tasks: set of rows

vars == <<users, profiles, events, regs, assignments, nextEvent, nextReg,
          booking, hnu, last, issued, freed, session, tickets, tasks>>

NoResponse == [op |-> "none", actor |-> Null, target |-> 0, error |-> "none", rows |-> 0]
Response(op, actor, target, error, rows) ==
    [op |-> op, actor |-> actor, target |-> target, error |-> error, rows |-> rows]

IdleBooking == [pc |-> "idle", event |-> 0]

----------------------------------------------------------------------------
\* Identity bridge: handle_new_user.

ProfileColumns == {"email", "full_name", "role"}

\* (text)::user_role : NULL stays NULL, a label of the enum is itself, any
\* other text raises "invalid input value for enum user_role".
CastUserRole(t) ==
    IF t = Null THEN [error |-> "none", value |-> Null]
    ELSE IF t \in Roles THEN [error |-> "none", value |-> t]
    ELSE [error |-> "invalid_enum", value |-> Null]

Coalesce(a, b) == IF a # Null THEN a ELSE b

\* The row handle_new_user hands to INSERT INTO public.profiles, or the error
\* raised while its VALUES list is evaluated.
HandleNewUserValues(version, email, meta) ==
    LET cast == CastUserRole(meta.role) IN
    IF cast.error # "none" THEN [error |-> cast.error, row |-> NoRow]
    ELSE IF version = "20250120120000"
    THEN [error |-> "none",
          row |-> [email |-> email,
                   full_name |-> Coalesce(meta.full_name, email),
                   role |-> Coalesce(cast.value, "attendee")]]
    ELSE [error |-> "none",
          row |-> [email |-> email,
                   full_name |-> meta.full_name,
                   role |-> cast.value]]

\* public.profiles: email, full_name and role are NOT NULL.
ProfileNotNull(row) == \A c \in ProfileColumns : row[c] # Null

\* INSERT INTO public.profiles of handle_new_user: the error it raises, "none"
\* when the row is stored.
HandleNewUserError(version, id, email, meta) ==
    LET v == HandleNewUserValues(version, email, meta) IN
    IF v.error # "none" THEN v.error
    ELSE IF ~ProfileNotNull(v.row) THEN "not_null"
    ELSE IF profiles[id] # NoRow THEN "unique_violation"
    ELSE "none"

\* raw_user_meta_data of a sign-up.
MetaRoles == Roles \cup {Null, "admin"}
MetaNames == {Null, "Ann"}
Emails == {"ann@x"}
Metas == [role : MetaRoles, full_name : MetaNames]

\* INSERT INTO auth.users with the AFTER INSERT trigger on_auth_user_created:
\* the identity and its Profile are stored together or not at all.
CreateIdentity(id, email, meta) ==
    /\ users[id] = NoRow
    /\ LET err == HandleNewUserError(hnu, id, email, meta) IN
       /\ last' = Response("create_identity", id, id, err, IF err = "none" THEN 1 ELSE 0)
       /\ IF err = "none"
          THEN /\ users' = [users EXCEPT ![id] = [email |-> email, raw_user_meta_data |-> meta]]
               /\ profiles' = [profiles EXCEPT ![id] = HandleNewUserValues(hnu, email, meta).row]
          ELSE UNCHANGED <<users, profiles>>
    /\ UNCHANGED <<session, tickets, tasks, events, regs, assignments, nextEvent, nextReg, booking, hnu,
                   issued, freed>>

\* The identity-created event of an identity that exists is delivered again:
\* handle_new_user runs a second time with the same NEW row.
RedeliverIdentityCreated(id) ==
    /\ users[id] # NoRow
    /\ LET email == users[id].email
           meta == users[id].raw_user_meta_data
           err == HandleNewUserError(hnu, id, email, meta) IN
       /\ last' = Response("redeliver_identity", id, id, err, IF err = "none" THEN 1 ELSE 0)
       /\ IF err = "none"
          THEN profiles' = [profiles EXCEPT ![id] = HandleNewUserValues(hnu, email, meta).row]
          ELSE UNCHANGED profiles
    /\ UNCHANGED <<session, tickets, tasks, users, events, regs, assignments, nextEvent, nextReg,
                   booking, hnu,
                   issued, freed>>

\* Migration 20250727120000 replaces the function.
ApplyFixUserCreationTrigger ==
    /\ hnu = "20250120120000"
    /\ hnu' = "20250727120000"
    /\ UNCHANGED <<session, tickets, tasks, users, profiles, events, regs, assignments, nextEvent, nextReg,
                   booking, last, issued, freed>>

----------------------------------------------------------------------------
\* Profiles: policies and update.

\* "Users can view their own profile"
ProfilesSelectPolicy(uid, id) == uid = id

\* "Users can update their own profile"
ProfilesUpdatePolicy(uid, id) == uid = id

VisibleProfiles(uid) ==
    {id \in Ids : profiles[id] # NoRow /\ ProfilesSelectPolicy(uid, id)}

\* The columns an update request sets.
ProfilePatches ==
    [{"full_name"} -> {"Bob"}] \cup [{"role"} -> Roles]
        \cup [{"full_name", "role"} -> {"Bob"} \cup Roles]

ValidProfilePatch(p) ==
    /\ "role" \in DOMAIN p => p["role"] \in Roles
    /\ "full_name" \in DOMAIN p => p["full_name"] = "Bob"

ApplyPatch(row, p) ==
    [c \in DOMAIN row |-> IF c \in DOMAIN p THEN p[c] ELSE row[c]]

\* UPDATE public.profiles SET <patch> WHERE id = target, sent by actor.
UpdateProfile(actor, target, p) ==
    /\ profiles[actor] # NoRow
    /\ profiles[target] # NoRow
    /\ ValidProfilePatch(p)
    /\ IF ProfilesUpdatePolicy(actor, target)
       THEN /\ profiles' = [profiles EXCEPT ![target] = ApplyPatch(profiles[target], p)]
            /\ last' = Response("update_profile", actor, target, "none", 1)
       ELSE /\ UNCHANGED profiles
            /\ last' = Response("update_profile", actor, target, "none", 0)
    /\ UNCHANGED <<session, tickets, tasks, users, events, regs, assignments, nextEvent, nextReg,
                   booking, hnu,
                   issued, freed>>

\* public.profiles has row-level security enabled and no policy FOR INSERT:
\* no request of a user may insert a Profile.
ProfilesInsertPolicy(uid, id) == FALSE

\* A policy that lets every user delete the Profile of its own identity.
ProfilesDeletePolicy_Own(uid, id) == uid = id

\* public.profiles has no policy FOR DELETE: every row is filtered out of a
\* user's DELETE.
ProfilesDeletePolicy(uid, id) == FALSE

\* INSERT INTO public.profiles (id, ...) sent by actor.
InsertProfile(actor, id) ==
    /\ users[actor] # NoRow
    /\ LET err == IF ~ProfilesInsertPolicy(actor, id) THEN "rls"
                  ELSE IF profiles[id] # NoRow THEN "unique_violation"
                  ELSE IF users[id] = NoRow THEN "fk_violation"
                  ELSE "none" IN
       /\ last' = Response("insert_profile", actor, id, err, IF err = "none" THEN 1 ELSE 0)
       /\ IF err = "none"
          THEN profiles' = [profiles EXCEPT ![id] =
                               [email |-> users[id].email, full_name |-> "Bob",
                                role |-> "attendee"]]
          ELSE UNCHANGED profiles
    /\ UNCHANGED <<session, tickets, tasks, users, events, regs, assignments, nextEvent, nextReg,
                   booking, hnu,
                   issued, freed>>

\* DELETE FROM public.profiles WHERE id = target, sent by actor; the events,
\* registrations and assignments that reference the Profile go with it.
DeleteProfile(actor, target) ==
    /\ users[actor] # NoRow
    /\ profiles[target] # NoRow
    /\ IF ProfilesDeletePolicy(actor, target)
       THEN LET gone == {e \in EventIds : events[e] # NoRow /\ events[e].organizer_id = target} IN
            /\ profiles' = [profiles EXCEPT ![target] = NoRow]
            /\ events' = [e \in EventIds |-> IF e \in gone THEN NoRow ELSE events[e]]
            /\ regs' = {r \in regs : r.attendee_id # target /\ r.event_id \notin gone}
            /\ assignments' = {a \in assignments :
                                  a.volunteer_id # target /\ a.event_id \notin gone}
            /\ tasks' = {t \in tasks : t.volunteer_id # target /\ t.event_id \notin gone}
            /\ last' = Response("delete_profile", actor, target, "none", 1)
       ELSE /\ UNCHANGED <<profiles, events, regs, assignments, tasks>>
            /\ last' = Response("delete_profile", actor, target, "none", 0)
    /\ UNCHANGED <<session, tickets, users, nextEvent, nextReg, booking, hnu, issued, freed>>

\* ProfilePage.handleSubmit: the form's columns, sent for the user's own row.
handleSubmit(actor, name) ==
    /\ profiles[actor] # NoRow
    /\ profiles' = [profiles EXCEPT ![actor] = ApplyPatch(profiles[actor], [full_name |-> name])]
    /\ last' = Response("update_profile", actor, actor, "none", 1)
    /\ UNCHANGED <<session, tickets, tasks, users, events, regs, assignments, nextEvent, nextReg,
                   booking, hnu,
                   issued, freed>>

----------------------------------------------------------------------------
\* Events: policies and requests.

Event(organizer_id, capacity, status) ==
    [organizer_id |-> organizer_id, capacity |-> capacity, status |-> status]

\* A policy that shows every event to everyone: FOR SELECT USING (true).
EventsSelectPolicy_Public(uid, ev) == TRUE

\* "Anyone can view published events"
EventsSelectPolicy(uid, ev) == ev.status = "published" \/ uid = ev.organizer_id

\* A policy on the role alone: every organizer manages every event.
EventsManagePolicy_AnyOrganizer(uid, ev) == profiles[uid].role = "organizer"

\* "Organizers can manage their own events" (FOR ALL)
EventsManagePolicy(uid, ev) == uid = ev.organizer_id

\* "Organizers can create events"
EventsInsertPolicy(uid, ev) == uid = ev.organizer_id

VisibleEvents(uid) ==
    {e \in EventIds : events[e] # NoRow
                      /\ (EventsSelectPolicy(uid, events[e]) \/ EventsManagePolicy(uid, events[e]))}

\* The organizer of event e as the policies' subquery
\* SELECT organizer_id FROM public.events WHERE id = event_id returns it.
OrganizersOf(e) == IF events[e] = NoRow THEN {} ELSE {events[e].organizer_id}

\* SELECT volunteer_id FROM public.volunteer_assignments WHERE event_id = e
VolunteersOf(e) == {a.volunteer_id : a \in {x \in assignments : x.event_id = e}}

\* INSERT INTO public.events, sent by actor.
InsertEvent(actor, organizer_id, capacity, status) ==
    /\ profiles[actor] # NoRow
    /\ profiles[organizer_id] # NoRow
    /\ nextEvent <= MaxEvents
    /\ LET ev == Event(organizer_id, capacity, status) IN
       IF EventsInsertPolicy(actor, ev) \/ EventsManagePolicy(actor, ev)
       THEN /\ events' = [events EXCEPT ![nextEvent] = ev]
            /\ nextEvent' = nextEvent + 1
            /\ last' = Response("insert_event", actor, nextEvent, "none", 1)
       ELSE /\ UNCHANGED <<events, nextEvent>>
            /\ last' = Response("insert_event", actor, nextEvent, "rls", 0)
    /\ UNCHANGED <<session, tickets, tasks, users, profiles, regs, assignments, nextReg, booking, hnu,
                   issued, freed>>

\* The columns an update of an event sets.
EventPatches ==
    [{"status"} -> {"cancelled"}] \cup [{"organizer_id"} -> Organizers]

\* UPDATE public.events SET <patch> WHERE id = e, sent by actor: a row the
\* policy's USING filters out is skipped without an error; the new row is
\* checked against the same expression.
UpdateEvent(actor, e, p) ==
    /\ profiles[actor] # NoRow
    /\ events[e] # NoRow
    /\ IF ~EventsManagePolicy(actor, events[e])
       THEN /\ UNCHANGED events
            /\ last' = Response("update_event", actor, e, "none", 0)
       ELSE IF ~EventsManagePolicy(actor, ApplyPatch(events[e], p))
       THEN /\ UNCHANGED events
            /\ last' = Response("update_event", actor, e, "rls", 0)
       ELSE /\ events' = [events EXCEPT ![e] = ApplyPatch(events[e], p)]
            /\ last' = Response("update_event", actor, e, "none", 1)
    /\ UNCHANGED <<session, tickets, tasks, users, profiles, regs, assignments, nextEvent, nextReg,
                   booking, hnu,
                   issued, freed>>

\* DELETE FROM public.events WHERE id = e, sent by actor; the registrations,
\* assignments and tasks of the event go with it (ON DELETE CASCADE).
DeleteEvent(actor, e) ==
    /\ profiles[actor] # NoRow
    /\ events[e] # NoRow
    /\ IF EventsManagePolicy(actor, events[e])
       THEN /\ events' = [events EXCEPT ![e] = NoRow]
            /\ regs' = {r \in regs : r.event_id # e}
            /\ assignments' = {a \in assignments : a.event_id # e}
            /\ tasks' = {t \in tasks : t.event_id # e}
            /\ freed' = freed \ {e}
            /\ last' = Response("delete_event", actor, e, "none", 1)
       ELSE /\ UNCHANGED <<events, regs, assignments, tasks, freed>>
            /\ last' = Response("delete_event", actor, e, "none", 0)
    /\ UNCHANGED <<session, tickets, users, profiles, nextEvent, nextReg, booking, hnu, issued>>

\* EventsPage.handleDeleteEvent: offered to an organizer on the events the
\* page lists, which fetchEvents restricts to organizer_id = profile.id.
handleDeleteEvent(actor, e) ==
    /\ profiles[actor] # NoRow
    /\ profiles[actor].role = "organizer"
    /\ e \in VisibleEvents(actor)
    /\ events[e].organizer_id = actor
    /\ DeleteEvent(actor, e)

----------------------------------------------------------------------------
\* Volunteer assignments.

\* "Organizers can manage volunteer assignments" (FOR ALL)
AssignmentsManagePolicy(uid, a) == uid \in OrganizersOf(a.event_id)

\* "Volunteers can view their assignments"
AssignmentsSelectPolicy(uid, a) == uid = a.volunteer_id \/ uid \in OrganizersOf(a.event_id)

\* The primary key alone: no constraint on the pair.
AssignmentUnique_ById(row) == \A a \in assignments : a.id # row.id

\* UNIQUE(event_id, volunteer_id)
AssignmentUnique(row) ==
    \A a \in assignments :
        a.id # row.id => ~(a.event_id = row.event_id /\ a.volunteer_id = row.volunteer_id)

\* The ids no stored assignment carries.
FreeAssignmentIds == {i \in AssignmentIds : \A a \in assignments : a.id # i}

\* INSERT INTO public.volunteer_assignments, sent by actor.
InsertAssignment(actor, e, v) ==
    /\ profiles[actor] # NoRow
    /\ profiles[v] # NoRow
    /\ events[e] # NoRow
    /\ FreeAssignmentIds # {}
    /\ LET id == CHOOSE i \in FreeAssignmentIds : \A k \in FreeAssignmentIds : i <= k
           a == [id |-> id, event_id |-> e, volunteer_id |-> v] IN
       IF ~AssignmentsManagePolicy(actor, a)
       THEN /\ UNCHANGED assignments
            /\ last' = Response("insert_assignment", actor, e, "rls", 0)
       ELSE IF ~AssignmentUnique(a)
       THEN /\ UNCHANGED assignments
            /\ last' = Response("insert_assignment", actor, e, "unique_violation", 0)
       ELSE /\ assignments' = assignments \cup {a}
            /\ last' = Response("insert_assignment", actor, e, "none", 1)
    /\ UNCHANGED <<session, tickets, tasks, users, profiles, events, regs, nextEvent, nextReg, booking, hnu,
                   issued, freed>>

\* DELETE FROM public.volunteer_assignments WHERE event_id = e AND volunteer_id = v
DeleteAssignment(actor, e, v) ==
    /\ profiles[actor] # NoRow
    /\ LET matching == {a \in assignments : a.event_id = e /\ a.volunteer_id = v}
           gone == {a \in matching : AssignmentsManagePolicy(actor, a)} IN
       /\ matching # {}
       /\ assignments' = assignments \ gone
       /\ last' = Response("delete_assignment", actor, e, "none", Cardinality(gone))
    /\ UNCHANGED <<session, tickets, tasks, users, profiles, events, regs, nextEvent, nextReg, booking, hnu,
                   issued, freed>>

----------------------------------------------------------------------------
\* Tasks: policies and requests.  title stands for the three columns title,
\* description and due_date, which no constraint or policy tells apart.

\* A row of event_tasks as an INSERT of these columns stores it: status
\* DEFAULT 'pending', completed_at without a default.
Task(id, event_id, volunteer_id, title) ==
    [id |-> id, event_id |-> event_id, volunteer_id |-> volunteer_id, title |-> title,
     status |-> "pending", completed_at |-> Null]

\* "Organizers can manage tasks" (FOR ALL)
TasksManagePolicy(uid, t) == uid \in OrganizersOf(t.event_id)

\* "Volunteers can update their assigned tasks"
TasksUpdateOwnPolicy(uid, t) == uid = t.volunteer_id

\* "Volunteers and organizers can view tasks"
TasksSelectPolicy(uid, t) == uid = t.volunteer_id \/ uid \in OrganizersOf(t.event_id)

\* event_id REFERENCES events NOT NULL, volunteer_id REFERENCES profiles
TaskForeignKeys(t) ==
    /\ t.event_id \in EventIds
    /\ events[t.event_id] # NoRow
    /\ t.volunteer_id # Null => profiles[t.volunteer_id] # NoRow

FreeTaskIds == {i \in TaskIds : \A t \in tasks : t.id # i}

\* INSERT INTO public.event_tasks (event_id, volunteer_id, title), sent by actor.
InsertTask(actor, e, v, title) ==
    /\ profiles[actor] # NoRow
    /\ FreeTaskIds # {}
    /\ LET id == CHOOSE i \in FreeTaskIds : \A k \in FreeTaskIds : i <= k
           t == Task(id, e, v, title) IN
       IF ~TasksManagePolicy(actor, t)
       THEN /\ UNCHANGED tasks
            /\ last' = Response("insert_task", actor, id, "rls", 0)
       ELSE IF ~TaskForeignKeys(t)
       THEN /\ UNCHANGED tasks
            /\ last' = Response("insert_task", actor, id, "fk_violation", 0)
       ELSE /\ tasks' = tasks \cup {t}
            /\ last' = Response("insert_task", actor, id, "none", 1)
    /\ UNCHANGED <<session, tickets, users, profiles, events, regs, assignments, nextEvent,
                   nextReg, booking, hnu, issued, freed>>

\* UPDATE public.event_tasks SET <patch> WHERE id = tid, sent by actor: a row
\* no UPDATE policy's USING admits is skipped without an error; the new row
\* has to pass the same expressions (no WITH CHECK is given).
UpdateTask(actor, tid, p) ==
    /\ profiles[actor] # NoRow
    /\ \E t \in tasks :
        /\ t.id = tid
        /\ LET new == ApplyPatch(t, p) IN
           IF ~(TasksManagePolicy(actor, t) \/ TasksUpdateOwnPolicy(actor, t))
           THEN /\ UNCHANGED tasks
                /\ last' = Response("update_task", actor, tid, "none", 0)
           ELSE IF ~(TasksManagePolicy(actor, new) \/ TasksUpdateOwnPolicy(actor, new))
           THEN /\ UNCHANGED tasks
                /\ last' = Response("update_task", actor, tid, "rls", 0)
           ELSE IF ~TaskForeignKeys(new)
           THEN /\ UNCHANGED tasks
                /\ last' = Response("update_task", actor, tid, "fk_violation", 0)
           ELSE /\ tasks' = (tasks \ {t}) \cup {new}
                /\ last' = Response("update_task", actor, tid, "none", 1)
    /\ UNCHANGED <<session, tickets, users, profiles, events, regs, assignments, nextEvent,
                   nextReg, booking, hnu, issued, freed>>

\* VolunteerDashboard.markTaskComplete at time now: the dashboard lists the
\* volunteer's own tasks that are not completed.
markTaskComplete(actor, tid, now) ==
    /\ profiles[actor] # NoRow
    /\ profiles[actor].role = "volunteer"
    /\ \E t \in tasks : t.id = tid /\ t.volunteer_id = actor /\ t.status # "completed"
    /\ UpdateTask(actor, tid, [status |-> "completed", completed_at |-> now])

----------------------------------------------------------------------------
\* Registrations: constraints, policies and requests.

Registration(id, event_id, attendee_id, status, ticket_number) ==
    [id |-> id, event_id |-> event_id, attendee_id |-> attendee_id, status |-> status,
     ticket_number |-> ticket_number, checked_in |-> FALSE]

RegsOf(e) == {r \in regs : r.event_id = e}

\* The occupied-seat count of an event.
Occupied(e) == Cardinality({r \in RegsOf(e) : r.status \in {"confirmed", "attended"}})

\* A partial index: unique among the registrations that are not cancelled.
TicketUnique_AmongLive(row) ==
    \A r \in regs : (r.id # row.id /\ r.status # "cancelled")
                      => r.ticket_number # row.ticket_number

\* ticket_number TEXT UNIQUE
TicketUnique(row) ==
    \A r \in regs : r.id # row.id => r.ticket_number # row.ticket_number

\* A partial key: UNIQUE(event_id, attendee_id) WHERE status <> 'cancelled'.
PairUnique_AmongLive(row) ==
    \A r \in regs : (r.id # row.id /\ r.status # "cancelled") =>
        ~(r.event_id = row.event_id /\ r.attendee_id = row.attendee_id)

\* A wider key: UNIQUE(event_id, attendee_id, ticket_number).
PairUnique_WithTicket(row) ==
    \A r \in regs : r.id # row.id =>
        ~(/\ r.event_id = row.event_id
          /\ r.attendee_id = row.attendee_id
          /\ r.ticket_number = row.ticket_number)

\* UNIQUE(event_id, attendee_id)
PairUnique(row) ==
    \A r \in regs : r.id # row.id =>
        ~(r.event_id = row.event_id /\ r.attendee_id = row.attendee_id)

\* event_id and attendee_id REFERENCES ... NOT NULL
RegForeignKeys(row) ==
    /\ row.event_id \in EventIds
    /\ events[row.event_id] # NoRow
    /\ profiles[row.attendee_id] # NoRow

\* "Users can view their own registrations"
RegsSelectPolicy(uid, r) ==
    \/ uid = r.attendee_id
    \/ uid \in OrganizersOf(r.event_id)
    \/ uid \in VolunteersOf(r.event_id)

\* "Attendees can create registrations"
RegsInsertPolicy(uid, row) == uid = row.attendee_id

\* "Attendees can update their registrations"
RegsUpdateOwnPolicy(uid, r) == uid = r.attendee_id

\* "Organizers and volunteers can update registrations"
RegsUpdateStaffPolicy(uid, r) ==
    \/ uid \in OrganizersOf(r.event_id)
    \/ uid \in VolunteersOf(r.event_id)

\* A DELETE policy for the attendee's own rows.
RegsDeletePolicy_Own(uid, r) == uid = r.attendee_id

\* Row level security is enabled on event_registrations and no policy is
\* created for DELETE: no row is visible to a DELETE.
RegsDeletePolicy(uid, r) == FALSE

VisibleRegistrations(uid) == {r \in regs : RegsSelectPolicy(uid, r)}

\* The error an INSERT of row by uid raises, "none" when the row is stored.
RegInsertError(uid, row) ==
    IF ~RegsInsertPolicy(uid, row) THEN "rls"
    ELSE IF ~TicketUnique(row) THEN "unique_ticket"
    ELSE IF ~PairUnique(row) THEN "unique_pair"
    ELSE IF ~RegForeignKeys(row) THEN "fk_violation"
    ELSE "none"

\* The error an UPDATE of row r to new by uid raises, "none" when it is stored.
RegUpdateError(uid, new) ==
    IF ~(RegsUpdateOwnPolicy(uid, new) \/ RegsUpdateStaffPolicy(uid, new)) THEN "rls"
    ELSE IF ~TicketUnique(new) THEN "unique_ticket"
    ELSE IF ~PairUnique(new) THEN "unique_pair"
    ELSE IF ~RegForeignKeys(new) THEN "fk_violation"
    ELSE "none"

\* INSERT INTO public.event_registrations, sent by actor.
InsertRegistration(actor, e, attendee, ticket, status) ==
    /\ profiles[actor] # NoRow
    /\ LET row == Registration(nextReg, e, attendee, status, ticket)
           err == RegInsertError(actor, row) IN
       /\ err = "none" => nextReg <= MaxRegs
       /\ last' = Response("insert_registration", actor, e, err, IF err = "none" THEN 1 ELSE 0)
       /\ IF err = "none"
          THEN /\ regs' = regs \cup {row}
               /\ nextReg' = nextReg + 1
               /\ issued' = issued \cup {[id |-> row.id, ticket_number |-> ticket]}
          ELSE UNCHANGED <<regs, nextReg, issued>>
    /\ UNCHANGED <<session, tickets, tasks, users, profiles, events, assignments, nextEvent, hnu, freed>>

\* The event prop of the detail modal: a row of fetchEvents' select('*'),
\* which carries no registrations_count.
EventProp(e) ==
    [id |-> e, capacity |-> events[e].capacity, status |-> events[e].status,
     registrations_count |-> Null]

\* event.capacity - (event.registrations_count || 0)
availableSeats(event) ==
    event.capacity - (IF event.registrations_count = Null THEN 0 ELSE event.registrations_count)

\* The events the events page lists for an attendee.
ListedForAttendee(uid) ==
    {e \in VisibleEvents(uid) : events[e].status = "published"}

\* handleRegister up to its await: the Register button of the modal of event
\* e is pressed in client c.  The ticket number generated here is read by
\* nothing before the insert, where the model draws it.
handleRegister(c, e) ==
    /\ booking[c].pc # "inserting"
    /\ profiles[c[1]] # NoRow
    /\ profiles[c[1]].role = "attendee"
    /\ e \in ListedForAttendee(c[1])
    /\ availableSeats(EventProp(e)) > 0
    /\ booking' = [booking EXCEPT ![c] = [pc |-> "inserting", event |-> e]]
    /\ UNCHANGED <<session, tickets, tasks, users, profiles, events, regs, assignments, nextEvent,
                   nextReg, hnu,
                   last, issued, freed>>

\* handleRegister from its await on: the insert, carrying ticket, reaches the
\* store and the handler reports success or failure.
handleRegisterInsert(c, ticket) ==
    /\ booking[c].pc = "inserting"
    /\ InsertRegistration(c[1], booking[c].event, c[1], ticket, "confirmed")
    /\ booking' = [booking EXCEPT ![c] = [pc |-> "done", event |-> 0]]

\* UPDATE public.event_registrations SET <patch> WHERE id = rid, sent by
\* actor: what the store does and answers.
ApplyRegistrationUpdate(actor, rid, p) ==
    /\ profiles[actor] # NoRow
    /\ \E r \in regs :
        /\ r.id = rid
        /\ LET new == ApplyPatch(r, p)
               err == RegUpdateError(actor, new) IN
           IF ~(RegsUpdateOwnPolicy(actor, r) \/ RegsUpdateStaffPolicy(actor, r))
           THEN /\ UNCHANGED <<regs, freed>>
                /\ last' = Response("update_registration", actor, rid, "none", 0)
           ELSE IF err # "none"
           THEN /\ UNCHANGED <<regs, freed>>
                /\ last' = Response("update_registration", actor, rid, err, 0)
           ELSE /\ regs' = (regs \ {r}) \cup {new}
                /\ freed' = IF /\ r.status = "confirmed"
                               /\ new.status = "cancelled"
                               /\ Occupied(r.event_id) = events[r.event_id].capacity
                            THEN freed \cup {r.event_id}
                            ELSE freed
                /\ last' = Response("update_registration", actor, rid, "none", 1)
    /\ UNCHANGED <<session, tasks, users, profiles, events, assignments, nextEvent, nextReg,
                   booking, hnu,
                   issued>>

\* The same UPDATE sent to the store's REST endpoint, outside the pages.
UpdateRegistration(actor, rid, p) ==
    /\ ApplyRegistrationUpdate(actor, rid, p)
    /\ UNCHANGED tickets

\* The optimistic variant: the local ticket is marked cancelled whatever the
\* update returned.
setTicketsCancelled_Optimistic(error, rid) ==
    {IF t.id = rid THEN [t EXCEPT !.status = "cancelled"] ELSE t : t \in tickets}

\* handleCancelBooking after its await: setTickets(prev => prev.map(...)) when
\* the update returned no error, nothing when it threw.
setTicketsCancelled(error, rid) ==
    IF error = "none"
    THEN {IF t.id = rid THEN [t EXCEPT !.status = "cancelled"] ELSE t : t \in tickets}
    ELSE tickets

\* TicketsPage.handleCancelBooking, confirmed by the user: the page lists the
\* attendee's own registrations and offers Cancel Booking on a ticket whose
\* status it holds as confirmed, which every ticket was when it was booked.
\* The tickets state is that of the browser whose session the model follows.
handleCancelBooking(actor, rid) ==
    /\ profiles[actor] # NoRow
    /\ profiles[actor].role = "attendee"
    /\ \E r \in regs : r.id = rid /\ r.attendee_id = actor
    /\ ApplyRegistrationUpdate(actor, rid, [status |-> "cancelled"])
    /\ tickets' = IF session.user = actor
                  THEN setTicketsCancelled(last'.error, rid)
                  ELSE tickets

\* handleCancelBooking when the update does not get through (the request
\* fails): the catch branch reports the failure and changes nothing.
handleCancelBookingError(actor, rid) ==
    /\ profiles[actor] # NoRow
    /\ profiles[actor].role = "attendee"
    /\ \E r \in regs : r.id = rid /\ r.attendee_id = actor
    /\ last' = Response("update_registration", actor, rid, "network", 0)
    /\ tickets' = IF session.user = actor
                  THEN setTicketsCancelled(last'.error, rid)
                  ELSE tickets
    /\ UNCHANGED <<session, tasks, users, profiles, events, regs, assignments, nextEvent,
                   nextReg, booking, hnu, issued, freed>>

\* handleCancelBooking when the user declines the confirm dialog: it returns.
handleCancelBookingDeclined(actor, rid) ==
    /\ profiles[actor] # NoRow
    /\ profiles[actor].role = "attendee"
    /\ \E r \in regs : r.id = rid /\ r.attendee_id = actor
    /\ UNCHANGED vars

\* DELETE FROM public.event_registrations WHERE id = rid, sent by actor: the
\* rows the policy hides are skipped without an error.
DeleteRegistration(actor, rid) ==
    /\ profiles[actor] # NoRow
    /\ LET gone == {r \in regs : r.id = rid /\ RegsDeletePolicy(actor, r)} IN
       /\ regs' = regs \ gone
       /\ last' = Response("delete_registration", actor, rid, "none", Cardinality(gone))
    /\ UNCHANGED <<session, tickets, tasks, users, profiles, events, assignments, nextEvent, nextReg,
                   booking, hnu, issued, freed>>

\* The same INSERT sent to the store's REST endpoint by a signed-in user,
\* outside the detail modal.
DirectInsertRegistration(actor, e, attendee, ticket, status) ==
    /\ InsertRegistration(actor, e, attendee, ticket, status)
    /\ UNCHANGED booking

\* A check-in: the organizer or an assigned volunteer of the event marks a
\* confirmed registration attended, a request the policy "Organizers and
\* volunteers can update registrations" accepts.
CheckIn(actor, rid) ==
    /\ \E r \in regs : r.id = rid /\ r.status = "confirmed" /\ RegsUpdateStaffPolicy(actor, r)
    /\ UpdateRegistration(actor, rid, [checked_in |-> TRUE, status |-> "attended"])

\* The check-in update sent by any signed-in user for any registration.
CheckInRequest(actor, rid) ==
    /\ \E r \in regs : r.id = rid
    /\ UpdateRegistration(actor, rid, [checked_in |-> TRUE, status |-> "attended"])

----------------------------------------------------------------------------
\* The browser session: App.tsx and the pages behind its protected routes.

ProtectedRoutes == {"/dashboard", "/events", "/analysis", "/profile", "/tickets"}

\* No session: the public page.
SignedOut ==
    [user |-> Null, loading |-> FALSE, profile |-> NoRow, route |-> "/", pageLoading |-> FALSE,
     events |-> {}]

\* A sign-in of identity id: useAuth() holds a user and is loading;
\* PublicRoute sends a user to /dashboard.
SignIn(id) ==
    /\ session.user = Null
    /\ users[id] # NoRow
    /\ session' = [user |-> id, loading |-> TRUE, profile |-> NoRow,
                   route |-> "/dashboard", pageLoading |-> TRUE, events |-> {}]
    /\ UNCHANGED <<users, profiles, events, regs, assignments, nextEvent, nextReg, booking,
                   hnu, last, issued, freed, tickets, tasks>>

\* useAuth() finishes loading, with the Profile of the user or without one.
FinishLoading(found) ==
    /\ session.user # Null
    /\ session.loading
    /\ found => profiles[session.user] # NoRow
    /\ session' = [session EXCEPT !.loading = FALSE,
                                  !.profile = IF found THEN profiles[session.user] ELSE NoRow]
    /\ UNCHANGED <<users, profiles, events, regs, assignments, nextEvent, nextReg, booking,
                   hnu, last, issued, freed, tickets, tasks>>

\* The user opens a protected route; ProtectedRoute renders its page for
\* every user.  The page mounts with its own loading flag set (ProfilePage
\* has none).
OpenRoute(route) ==
    /\ session.user # Null
    /\ route \in ProtectedRoutes
    /\ route # session.route
    /\ session' = [session EXCEPT !.route = route, !.pageLoading = (route # "/profile"),
                                  !.events = {}]
    /\ tickets' = {}
    /\ UNCHANGED <<users, profiles, events, regs, assignments, nextEvent, nextReg, booking,
                   hnu, last, issued, freed, tasks>>

\* select('*') from events with no filter by role.
EventsQuery_Unfiltered(uid, role) == VisibleEvents(uid)

\* The rows the query of fetchEvents returns to user uid whose cached
\* Profile has the given role: the role's filter on what the policies show.
EventsQuery(uid, role) ==
    CASE role = "organizer" ->
             {e \in VisibleEvents(uid) : events[e].organizer_id = uid}
      [] role = "volunteer" ->
             LET eventIds == {a.event_id : a \in {x \in assignments :
                                 AssignmentsSelectPolicy(uid, x) /\ x.volunteer_id = uid}} IN
             IF eventIds = {} THEN {} ELSE {e \in VisibleEvents(uid) : e \in eventIds}
      [] role = "attendee" ->
             {e \in VisibleEvents(uid) : events[e].status = "published"}
      [] OTHER -> VisibleEvents(uid)

\* EventsPage.fetchEvents: returns at once without a Profile, leaving the
\* page's loading flag set; with one it ends in setLoading(false), after
\* setEvents when the query succeeded (ok) and without it when it failed.
fetchEvents(ok) ==
    /\ session.route = "/events"
    /\ session.pageLoading
    /\ session.profile # NoRow
    /\ session' = [session EXCEPT
                      !.pageLoading = FALSE,
                      !.events = IF ok THEN EventsQuery(session.user, session.profile.role)
                                 ELSE session.events]
    /\ UNCHANGED <<users, profiles, events, regs, assignments, nextEvent, nextReg, booking,
                   hnu, last, issued, freed, tickets, tasks>>

\* TicketsPage.fetchTickets: started by the page's effect for an attendee.
\* The query returns the user's own registrations (ok) or an error; the
\* start time that splits them into upcoming and past is not modelled, every
\* ticket is an upcoming one.
fetchTickets(ok) ==
    /\ session.route = "/tickets"
    /\ session.pageLoading
    /\ session.profile # NoRow
    /\ session.profile.role = "attendee"
    /\ session' = [session EXCEPT !.pageLoading = FALSE]
    /\ tickets' = IF ok
                  THEN {r \in VisibleRegistrations(session.user) : r.attendee_id = session.user}
                  ELSE tickets
    /\ UNCHANGED <<users, profiles, events, regs, assignments, nextEvent, nextReg, booking,
                   hnu, last, issued, freed, tasks>>

\* AnalysisPage.fetchAnalyticsData: started by the page's effect for an
\* organizer.
fetchAnalyticsData ==
    /\ session.route = "/analysis"
    /\ session.pageLoading
    /\ session.profile # NoRow
    /\ session.profile.role = "organizer"
    /\ session' = [session EXCEPT !.pageLoading = FALSE]
    /\ UNCHANGED <<users, profiles, events, regs, assignments, nextEvent, nextReg, booking,
                   hnu, last, issued, freed, tickets, tasks>>

\* The dashboard DashboardRouter shows for the Profile's role fetches its
\* data (AttendeeDashboard.fetchAttendeeData and its siblings).
fetchAttendeeData ==
    /\ session.route = "/dashboard"
    /\ session.pageLoading
    /\ ~session.loading
    /\ session.profile # NoRow
    /\ session' = [session EXCEPT !.pageLoading = FALSE]
    /\ UNCHANGED <<users, profiles, events, regs, assignments, nextEvent, nextReg, booking,
                   hnu, last, issued, freed, tickets, tasks>>

\* DashboardRouter.checkProfileAndSignOut: the effect of the /dashboard
\* route signs out a session that has finished loading without a Profile.
checkProfileAndSignOut ==
    /\ session.route = "/dashboard"
    /\ ~session.loading
    /\ session.profile = NoRow
    /\ session.user # Null
    /\ session' = SignedOut
    /\ tickets' = {}
    /\ UNCHANGED <<users, profiles, events, regs, assignments, nextEvent, nextReg, booking,
                   hnu, last, issued, freed, tasks>>

\* Navigation, rendered only with a Profile, offers Sign Out.
NavigationSignOut ==
    /\ session.user # Null
    /\ session.profile # NoRow
    /\ session' = SignedOut
    /\ tickets' = {}
    /\ UNCHANGED <<users, profiles, events, regs, assignments, nextEvent, nextReg, booking,
                   hnu, last, issued, freed, tasks>>

\* The route guards of App.tsx as functions of what useAuth() returns: what
\* the element of the current route renders.

PublicRoutes == {"/", "/login", "/register"}
AllRoutes == PublicRoutes \cup ProtectedRoutes

\* A guard that does not wait for authentication to finish loading.
ProtectedRoute_NoSpinner(s) ==
    IF s.user = Null THEN "Navigate:/" ELSE "children"

ProtectedRoute(s) ==
    IF s.loading THEN "Loading"
    ELSE IF s.user = Null THEN "Navigate:/"
    ELSE "children"

PublicRoute(s) ==
    IF s.loading THEN "Loading"
    ELSE IF s.user # Null THEN "Navigate:/dashboard"
    ELSE "children"

\* DashboardRouter: the spinner, the dashboard of the role, or, in the
\* default branch of the switch, signOut() and a redirect to "/".
DashboardRouter(s) ==
    IF s.loading \/ s.profile = NoRow THEN "Loading profile"
    ELSE IF s.profile.role \in Roles THEN "Dashboard"
    ELSE "SignOut"

RouteElement(s) ==
    IF s.route \in PublicRoutes THEN PublicRoute(s)
    ELSE IF ProtectedRoute(s) = "children" /\ s.route = "/dashboard" THEN DashboardRouter(s)
    ELSE ProtectedRoute(s)

\* The user enters a route in the address bar.
Goto(route) ==
    /\ route # session.route
    /\ session' = [session EXCEPT !.route = route, !.pageLoading = FALSE, !.events = {}]
    /\ tickets' = {}
    /\ UNCHANGED <<users, profiles, events, regs, assignments, nextEvent, nextReg, booking,
                   hnu, last, issued, freed, tasks>>

\* <Navigate to=... replace /> rendered by a guard.
Navigate ==
    /\ RouteElement(session) \in {"Navigate:/", "Navigate:/dashboard"}
    /\ session' = [session EXCEPT
                      !.route = IF RouteElement(session) = "Navigate:/" THEN "/"
                                ELSE "/dashboard",
                      !.pageLoading = FALSE, !.events = {}]
    /\ tickets' = {}
    /\ UNCHANGED <<users, profiles, events, regs, assignments, nextEvent, nextReg, booking,
                   hnu, last, issued, freed, tasks>>

\* The default branch of DashboardRouter's switch: signOut() and Navigate to "/".
DashboardRouterSignOut ==
    /\ RouteElement(session) = "SignOut"
    /\ session' = SignedOut
    /\ tickets' = {}
    /\ UNCHANGED <<users, profiles, events, regs, assignments, nextEvent, nextReg, booking,
                   hnu, last, issued, freed, tasks>>

----------------------------------------------------------------------------
\* Initial states and specifications.

ProvisionedRole(id) ==
    IF id \in Organizers THEN "organizer"
    ELSE IF id \in Volunteers THEN "volunteer"
    ELSE "attendee"

ProvisionedUser(id) ==
    [email |-> "ann@x",
     raw_user_meta_data |-> [role |-> ProvisionedRole(id), full_name |-> "Ann"]]

\* The store after the migrations, before any sign-up.
InitIdentity ==
    /\ users = [id \in Ids |-> NoRow]
    /\ profiles = [id \in Ids |-> NoRow]
    /\ events = [e \in EventIds |-> NoRow]
    /\ regs = {}
    /\ assignments = {}
    /\ nextEvent = 1
    /\ nextReg = 1
    /\ booking = [c \in Clients |-> IdleBooking]
    /\ hnu = "20250120120000"
    /\ last = NoResponse
    /\ issued = {}
    /\ freed = {}
    /\ session = SignedOut
    /\ tickets = {}
    /\ tasks = {}

\* The tables after the organizers, the volunteer and the attendees signed up.
InitTables ==
    /\ users = [id \in Ids |-> IF id \in NewIds THEN NoRow ELSE ProvisionedUser(id)]
    /\ profiles = [id \in Ids |->
                     IF id \in NewIds THEN NoRow
                     ELSE HandleNewUserValues("20250727120000", ProvisionedUser(id).email,
                                              ProvisionedUser(id).raw_user_meta_data).row]
    /\ regs = {}
    /\ assignments = {}
    /\ nextReg = 1
    /\ booking = [c \in Clients |-> IdleBooking]
    /\ hnu = "20250727120000"
    /\ last = NoResponse
    /\ issued = {}
    /\ freed = {}
    /\ tasks = {}

\* The store after the sign-ups and a browser with no session.
InitStore ==
    /\ InitTables
    /\ session = SignedOut
    /\ tickets = {}

\* Sign-ups, re-deliveries and profile updates.
NextIdentity ==
    \/ \E id \in NewIds, email \in Emails, meta \in Metas : CreateIdentity(id, email, meta)
    \/ \E id \in NewIds : RedeliverIdentityCreated(id)
    \/ ApplyFixUserCreationTrigger
    \/ \E actor \in NewIds, target \in NewIds, p \in ProfilePatches :
          UpdateProfile(actor, target, p)
    \/ \E actor \in NewIds : handleSubmit(actor, "Bob")
    \/ \E actor \in NewIds, id \in NewIds : InsertProfile(actor, id)
    \/ \E actor \in NewIds, target \in NewIds : DeleteProfile(actor, target)

SpecIdentity == InitIdentity /\ [][NextIdentity]_vars

\* The store with one published event of organizer o1.
Init ==
    /\ InitStore
    /\ \E cap \in 1..MaxCapacity :
          events = [e \in EventIds |-> IF e = 1 THEN Event("o1", cap, "published") ELSE NoRow]
    /\ nextEvent = 2

\* Bookings and cancellations on that event; the ticket number of
\* a booking is the one no registration carried before.
Next ==
    \/ \E c \in MainClients : handleRegister(c, 1)
    \/ \E c \in MainClients : handleRegisterInsert(c, nextReg)
    \/ \E a \in Attendees, rid \in RegIds : handleCancelBooking(a, rid)

Spec == Init /\ [][Next]_vars

\* C1: for every event, the registrations with status confirmed or attended
\* never outnumber its capacity.
C1_CapacityNeverExceeded ==
    \A e \in EventIds : events[e] # NoRow => Occupied(e) <= events[e].capacity

\* C5: cancelling a confirmed registration lowers the occupied count of its
\* event by exactly one, and once a cancellation has freed a seat of a full
\* event, no booking is stored while the event is full again.
C5_Step ==
    \A e \in EventIds : events[e] # NoRow =>
        /\ (\E r \in RegsOf(e), r2 \in regs' :
               r.status = "confirmed" /\ r2.id = r.id /\ r2.status = "cancelled")
           => Occupied(e)' = Occupied(e) - 1
        /\ (e \in freed /\ Occupied(e) >= events[e].capacity)
           => \A r2 \in regs' : r2.event_id = e => \E r \in regs : r.id = r2.id

C5_CancelFreesExactlyOneSeat == [][C5_Step]_vars

\* C27: handleRegister is started from the modal only for an event whose
\* confirmed registrations are fewer than its capacity.
C27_Step ==
    \A c \in Clients :
        (booking[c].pc # "inserting" /\ booking'[c].pc = "inserting")
        => Cardinality({r \in RegsOf(booking'[c].event) : r.status = "confirmed"})
              < events[booking'[c].event].capacity

C27_NoRegisterWhenFull == [][C27_Step]_vars

----------------------------------------------------------------------------
\* Concurrent bookings: every client presses Register once.

FirstRegister(c, e) ==
    /\ booking[c].pc = "idle"
    /\ handleRegister(c, e)

NextConcurrent ==
    \/ \E c \in Clients : FirstRegister(c, 1)
    \/ \E c \in Clients : handleRegisterInsert(c, nextReg)

SpecConcurrent == Init /\ [][NextConcurrent]_vars

ConfirmedAttendees(e) ==
    {a \in Attendees : \E r \in RegsOf(e) : r.attendee_id = a /\ r.status = "confirmed"}

\* C2: when the N attendees have all booked event 1 concurrently and N
\* exceeds its capacity C, exactly C of them hold a confirmed registration
\* and the other N - C were rejected.
C2_ExactlyCapacityConfirmed ==
    (/\ \A c \in Clients : booking[c].pc = "done"
     /\ Cardinality(Attendees) > events[1].capacity)
    => /\ Cardinality(ConfirmedAttendees(1)) = events[1].capacity
       /\ Cardinality(Attendees \ ConfirmedAttendees(1))
             = Cardinality(Attendees) - events[1].capacity

----------------------------------------------------------------------------
\* Uniqueness: two tabs of one attendee, colliding ticket numbers, events
\* created and deleted.

InitNoEvents ==
    /\ InitStore
    /\ events = [e \in EventIds |-> NoRow]
    /\ nextEvent = 1

UniqueClients == {<<"a1", 1>>, <<"a1", 2>>}

\* The columns an update of a registration sets here: it is handed to
\* another attendee or moved to another event.
MovePatches == [{"attendee_id"} -> {"a1", "a2"}] \cup [{"event_id"} -> EventIds]

NextUnique ==
    \/ InsertEvent("o1", "o1", 1, "published")
    \/ \E e \in EventIds : handleDeleteEvent("o1", e)
    \/ \E c \in UniqueClients, e \in EventIds : FirstRegister(c, e)
    \/ \E c \in UniqueClients, t \in Tickets : handleRegisterInsert(c, t)
    \/ \E rid \in RegIds : handleCancelBooking("a1", rid)
    \/ \E rid \in RegIds, p \in MovePatches : UpdateRegistration("a1", rid, p)

SpecUnique == InitNoEvents /\ [][NextUnique]_vars

\* C3: for every (event, attendee) pair at most one registration is not
\* cancelled.
C3_OneLiveRegistrationPerPair ==
    \A r1 \in regs, r2 \in regs :
        (/\ r1.event_id = r2.event_id
         /\ r1.attendee_id = r2.attendee_id
         /\ r1.status # "cancelled"
         /\ r2.status # "cancelled") => r1 = r2

\* Both tabs of attendee a1 have submitted a booking; one is stored and the
\* other was rejected by UNIQUE(event_id, attendee_id).
C3_Witness ==
    /\ booking[<<"a1", 1>>].pc = "done"
    /\ booking[<<"a1", 2>>].pc = "done"
    /\ last.op = "insert_registration"
    /\ last.actor = "a1"
    /\ last.error = "unique_pair"
    /\ \E r \in regs : r.attendee_id = "a1" /\ r.event_id = last.target

\* C17: when the insert of a booking reaches the store while the attendee
\* holds a registration for the event that is not cancelled, the insert is
\* rejected by a unique constraint and the table is left as it was.
C17_Step ==
    \A c \in UniqueClients :
        (/\ booking[c].pc = "inserting"
         /\ booking'[c].pc = "done"
         /\ \E r \in regs : /\ r.event_id = booking[c].event
                             /\ r.attendee_id = c[1]
                             /\ r.status # "cancelled")
        => /\ regs' = regs
           /\ last'.op = "insert_registration"
           /\ last'.error \in {"unique_pair", "unique_ticket"}
           /\ last'.rows = 0

C17_SecondBookingRejected == [][C17_Step]_vars

\* The second tab's booking was rejected while the first tab's registration,
\* the only row, is still confirmed.
C17_Witness ==
    /\ last.op = "insert_registration"
    /\ last.error = "unique_pair"
    /\ regs # {}
    /\ \A r \in regs : /\ r.attendee_id = last.actor
                         /\ r.event_id = last.target
                         /\ r.status = "confirmed"

\* C18: the table holds at most one registration for an (event, attendee)
\* pair, whatever the statuses.
C18_OneRowPerPair ==
    \A r1 \in regs, r2 \in regs :
        (r1.event_id = r2.event_id /\ r1.attendee_id = r2.attendee_id)
        => r1.id = r2.id

\* Attendee a1 booked again after cancelling: the booking was rejected and
\* the cancelled registration is the pair's only row.
C18_Witness ==
    /\ last.op = "insert_registration"
    /\ last.error = "unique_pair"
    /\ \E r \in regs : /\ r.attendee_id = last.actor
                         /\ r.event_id = last.target
                         /\ r.status = "cancelled"

\* C4 as stated: no two registrations ever created carry the same ticket
\* identifier.
C4_TicketsUniqueEverCreated ==
    \A i1 \in issued, i2 \in issued :
        i1.ticket_number = i2.ticket_number => i1.id = i2.id

\* C4 amended: no two registrations stored at the same time, cancelled ones
\* included, carry the same ticket identifier.
C4_TicketsUniqueAmongStored ==
    \A r1 \in regs, r2 \in regs : r1.ticket_number = r2.ticket_number => r1 = r2

\* A booking whose ticket number equals that of a stored, cancelled
\* registration was rejected.
C4_Witness ==
    /\ last.op = "insert_registration"
    /\ last.error = "unique_ticket"
    /\ regs # {}
    /\ \A r \in regs : r.status = "cancelled"

----------------------------------------------------------------------------
\* Claims on the identity bridge and the profiles, under SpecIdentity.

\* C6: no accepted update of a Profile changes its role.
C6_Step ==
    \A id \in Ids :
        (profiles[id] # NoRow /\ profiles'[id] # NoRow)
        => profiles'[id].role = profiles[id].role

C6_RoleNeverChanges == [][C6_Step]_vars

\* C9: a sign-up whose metadata names the role volunteer stores a volunteer
\* Profile, and delivering the identity-created event again returns success.
C9_RedeliveryReturnsSuccess ==
    /\ (/\ last.op = "create_identity"
        /\ last.error = "none"
        /\ users[last.actor].raw_user_meta_data.role = "volunteer")
       => profiles[last.actor].role = "volunteer"
    /\ last.op = "redeliver_identity" => last.error = "none"

\* C10: every sign-up succeeds and stores a Profile whose role is the
\* metadata's role when that is one of the three roles and attendee otherwise,
\* and whose full_name is the metadata's full_name or else the email.
C10_ProvisioningAlwaysSucceeds ==
    last.op = "create_identity" =>
        /\ last.error = "none"
        /\ LET meta == users[last.actor].raw_user_meta_data
               email == users[last.actor].email IN
           /\ profiles[last.actor].role
                 = (IF meta.role \in Roles THEN meta.role ELSE "attendee")
           /\ profiles[last.actor].full_name
                 = (IF meta.full_name # Null THEN meta.full_name ELSE email)
           /\ profiles[last.actor].email = email

\* C11: an identity exists exactly when its Profile exists (one Profile per
\* identity, the Profile being keyed by the identity's id); a failed
\* provisioning leaves neither behind and no request of a user adds or
\* removes a Profile.
C11_OneProfilePerIdentity ==
    \A id \in Ids : (users[id] # NoRow) <=> (profiles[id] # NoRow)

\* A sign-up has failed in provisioning while another identity exists with
\* its Profile.
C11_Witness ==
    /\ last.op = "create_identity"
    /\ last.error # "none"
    /\ users[last.actor] = NoRow
    /\ profiles[last.actor] = NoRow
    /\ \E id \in NewIds : users[id] # NoRow /\ profiles[id] # NoRow

----------------------------------------------------------------------------
\* The life of a registration: attendees book event 1 and cancel, organizer
\* o1 checks attendees in.

LifecycleClients == {<<"a1", 1>>, <<"a2", 1>>}

NextLifecycle ==
    \/ \E c \in LifecycleClients : FirstRegister(c, 1)
    \/ \E c \in LifecycleClients : handleRegisterInsert(c, nextReg)
    \/ \E a \in {"a1", "a2"}, rid \in RegIds : handleCancelBooking(a, rid)
    \/ \E rid \in RegIds : CheckIn("o1", rid)

SpecLifecycle == Init /\ [][NextLifecycle]_vars

AllowedTransitions ==
    {<<"pending", "confirmed">>, <<"confirmed", "attended">>,
     <<"pending", "cancelled">>, <<"confirmed", "cancelled">>}

\* C13: every change of a registration's status is pending -> confirmed,
\* confirmed -> attended, or pending or confirmed -> cancelled; a cancelled
\* or attended registration keeps its status.
C13_Step ==
    \A r \in regs, r2 \in regs' :
        (r.id = r2.id /\ r.status # r2.status)
        => <<r.status, r2.status>> \in AllowedTransitions

C13_StatusFollowsStateMachine == [][C13_Step]_vars

----------------------------------------------------------------------------
\* Bookings through the detail modal and by direct requests, while the
\* organizer may cancel the event.

BookingActors == {"a1", "o1", "v1"}

NextBooking ==
    \/ FirstRegister(<<"a1", 1>>, 1)
    \/ handleRegisterInsert(<<"a1", 1>>, nextReg)
    \/ \E actor \in BookingActors, status \in RegistrationStatuses :
          \E attendee \in {actor, "a2"} :
              DirectInsertRegistration(actor, 1, attendee, nextReg, status)
    \/ UpdateEvent("o1", 1, [status |-> "cancelled"])
    \/ \E rid \in RegIds : handleCancelBooking("a1", rid)

SpecBooking == Init /\ [][NextBooking]_vars

\* The registrations a step stores that the table did not hold before it.
Created == {r2 \in regs' : \A r \in regs : r.id # r2.id}

\* C14: a registration has status confirmed when it is created; no stored
\* insert carries pending, cancelled or attended.
C14_Step == \A r2 \in Created : r2.status = "confirmed"

C14_CreatedConfirmed == [][C14_Step]_vars

\* C15: a booking by a user whose role is not attendee stores no
\* registration: every registration belongs to an attendee.
C15_OnlyAttendeesHoldRegistrations ==
    \A r \in regs : profiles[r.attendee_id].role = "attendee"

\* C16: a booking for an event that is not published at the moment the
\* insert reaches the store creates no registration.
C16_Step == \A r2 \in Created : events[r2.event_id].status = "published"

C16_BookedEventIsPublished == [][C16_Step]_vars

----------------------------------------------------------------------------
\* Updates an attendee sends for a registration: attendees a1 and a2 book
\* event 1, then a1 sends updates of single columns.

OwnPatches ==
    [{"status"} -> RegistrationStatuses] \cup [{"checked_in"} -> BOOLEAN]
    \cup [{"ticket_number"} -> Tickets] \cup [{"event_id"} -> EventIds]
    \cup [{"attendee_id"} -> {"a1", "a2"}]

NextOwnUpdate ==
    \/ \E c \in LifecycleClients : FirstRegister(c, 1)
    \/ \E c \in LifecycleClients : handleRegisterInsert(c, nextReg)
    \/ \E rid \in RegIds, p \in OwnPatches : UpdateRegistration("a1", rid, p)

SpecOwnUpdate == Init /\ [][NextOwnUpdate]_vars

\* C19: an update sent by an attendee leaves every registration as it was
\* or sets the status of the attendee's own registration to cancelled, and
\* changes nothing else.
C19_Step ==
    (last'.op = "update_registration" /\ profiles[last'.actor].role = "attendee")
    => \A r \in regs, r2 \in regs' :
           r.id = r2.id =>
               \/ r2 = r
               \/ /\ r.attendee_id = last'.actor
                  /\ r2 = [r EXCEPT !.status = "cancelled"]

C19_AttendeeMayOnlyCancel == [][C19_Step]_vars

----------------------------------------------------------------------------
\* Deletions: organizer o1 creates and deletes event 1, attendee a1 books and
\* cancels, and the three roles send deletes of registrations.

NextDelete ==
    \/ InsertEvent("o1", "o1", 1, "published")
    \/ \E e \in EventIds : handleDeleteEvent("o1", e)
    \/ \E c \in UniqueClients : FirstRegister(c, 1)
    \/ \E c \in UniqueClients : handleRegisterInsert(c, nextReg)
    \/ \E rid \in RegIds : handleCancelBooking("a1", rid)
    \/ \E actor \in BookingActors, rid \in RegIds : DeleteRegistration(actor, rid)

SpecDelete == InitNoEvents /\ [][NextDelete]_vars

\* C20 as stated: a registration, once created, is in the table in every
\* later state.
C20_OriginalStep == \A r \in regs : \E r2 \in regs' : r2.id = r.id

C20_Step ==
    /\ last'.op = "delete_registration" => (regs' = regs /\ last'.rows = 0)
    /\ \A r \in regs :
          \/ \E r2 \in regs' : r2.id = r.id
          \/ events[r.event_id] # NoRow /\ events'[r.event_id] = NoRow

----------------------------------------------------------------------------
\* Reading events: organizers o1 and o2 create events in any status and
\* change the status, and assign volunteer v1.

ReadOwners == {"o1", "o2"}
StatusPatches == [{"status"} -> EventStatuses]

NextRead ==
    \/ \E o \in ReadOwners, st \in EventStatuses : InsertEvent(o, o, 1, st)
    \/ \E o \in ReadOwners, e \in EventIds, p \in StatusPatches : UpdateEvent(o, e, p)
    \/ \E e \in EventIds : InsertAssignment("o1", e, "v1")
    \/ \E e \in EventIds : DeleteAssignment("o1", e, "v1")

SpecRead == InitNoEvents /\ [][NextRead]_vars

----------------------------------------------------------------------------
\* Volunteer assignments: o1 owns event 1, o2 creates and deletes event 2, and
\* the organizers and volunteer v1 ask for assignments of v1 and a1 and for
\* their removal.

AssignActors == {"o1", "o2", "v1"}
Assignees == {"v1", "a1"}

NextAssign ==
    \/ InsertEvent("o2", "o2", 1, "published")
    \/ \E e \in EventIds : DeleteEvent("o2", e)
    \/ \E actor \in AssignActors, e \in EventIds, v \in Assignees :
          InsertAssignment(actor, e, v)
    \/ \E actor \in AssignActors, e \in EventIds, v \in Assignees :
          DeleteAssignment(actor, e, v)

SpecAssign == Init /\ [][NextAssign]_vars

\* C23: an assignment of event E is added or removed only in a step of E's
\* organizer; an insert for a pair that has an assignment fails with a
\* unique violation and changes nothing; and there is at most one assignment
\* per (event, volunteer) pair.
C23_Step ==
    /\ \A a \in (assignments' \ assignments) \cup (assignments \ assignments') :
          /\ last'.actor = events[a.event_id].organizer_id
          /\ last'.rows >= 1
    /\ \A a \in assignments' \ assignments : a.volunteer_id \notin VolunteersOf(a.event_id)
    /\ last'.error = "unique_violation" => assignments' = assignments
    /\ \A a1 \in assignments', a2 \in assignments' :
          (a1.event_id = a2.event_id /\ a1.volunteer_id = a2.volunteer_id)
          => a1.id = a2.id

C23_AssignmentsByOwnerAndUnique == [][C23_Step]_vars

\* Organizer o1 asked for a second assignment of a volunteer to event 1 and
\* was refused, and the last request of another actor changed nothing.
C23_Witness ==
    /\ last.op = "insert_assignment"
    /\ last.actor = "o1"
    /\ last.error = "unique_violation"
    /\ VolunteersOf(1) # {}
    /\ Cardinality(assignments) = Cardinality({<<a.event_id, a.volunteer_id>> : a \in assignments})

----------------------------------------------------------------------------
\* Tasks of event 1: organizer o1 creates tasks for volunteer v1, for attendee
\* a1 and unassigned ones, v1 marks tasks complete and sends updates of
\* single columns.

TaskPatches ==
    [{"status"} -> TaskStatuses] \cup [{"completed_at"} -> Times \cup {Null}]
    \cup [{"title"} -> Titles] \cup [{"volunteer_id"} -> {"v1", "a1"}]

NextTasks ==
    \/ \E v \in {"v1", "a1", Null} : InsertTask("o1", 1, v, "Desk")
    \/ \E tid \in TaskIds, now \in Times : markTaskComplete("v1", tid, now)
    \/ \E tid \in TaskIds, p \in TaskPatches : UpdateTask("v1", tid, p)

SpecTasks == Init /\ [][NextTasks]_vars

\* C24: completed_at changes only in a step that takes the task to status
\* completed, and every such step leaves it set; so a completed task has
\* completed_at set and a task never completed has none.
C24_Step ==
    \A t \in tasks, t2 \in tasks' :
        t.id = t2.id =>
            /\ t2.completed_at # t.completed_at
                  => (t.status # "completed" /\ t2.status = "completed")
            /\ (t.status # "completed" /\ t2.status = "completed")
                  => t2.completed_at # Null

C24_CompletedAtFollowsStatus == [][C24_Step]_vars

\* C25: an update sent by a volunteer leaves every task as it was, or
\* changes status and completed_at of a task assigned to that volunteer and
\* nothing else.
C25_Step ==
    (last'.op = "update_task" /\ profiles[last'.actor].role = "volunteer")
    => \A t \in tasks, t2 \in tasks' :
           t.id = t2.id =>
               \/ t2 = t
               \/ /\ t.volunteer_id = last'.actor
                  /\ t2 = [t EXCEPT !.status = t2.status, !.completed_at = t2.completed_at]

C25_VolunteerChangesStatusOnly == [][C25_Step]_vars

----------------------------------------------------------------------------
\* Check-in at event 1 of organizer o1: o1 assigns volunteer v1 and takes the
\* assignment back, o2 owns another event, attendee a1 books through the
\* modal and v1 by a direct insert, and o1, o2 and v1 send check-ins.

NextCheckIn ==
    \/ InsertEvent("o2", "o2", 1, "published")
    \/ InsertAssignment("o1", 1, "v1")
    \/ DeleteAssignment("o1", 1, "v1")
    \/ FirstRegister(<<"a1", 1>>, 1)
    \/ handleRegisterInsert(<<"a1", 1>>, nextReg)
    \/ DirectInsertRegistration("v1", 1, "v1", nextReg, "confirmed")
    \/ \E actor \in AssignActors, rid \in RegIds : CheckInRequest(actor, rid)

SpecCheckIn == Init /\ [][NextCheckIn]_vars

\* The staff of the event of registration r: its organizer and its assigned
\* volunteers.
StaffOf(r) == OrganizersOf(r.event_id) \cup VolunteersOf(r.event_id)

\* C26: a check-in sent by the organizer of the registration's event or by
\* a volunteer assigned to it is stored; one sent by another organizer or
\* volunteer leaves the registrations unchanged.
C26_Step ==
    \A r \in regs :
        (/\ last'.op = "update_registration"
         /\ last'.target = r.id
         /\ profiles[last'.actor].role \in {"organizer", "volunteer"})
        => IF last'.actor \in StaffOf(r)
           THEN /\ last'.rows = 1
                /\ \E r2 \in regs' : r2.id = r.id /\ r2.checked_in /\ r2.status = "attended"
           ELSE regs' = regs

C26_CheckInByStaffOnly == [][C26_Step]_vars

\* C26 for the registrations of other users: a check-in sent by an
\* organizer or volunteer who is neither staff of the event nor the
\* registration's attendee leaves the registrations unchanged.
C26_StepForOthers ==
    \A r \in regs :
        (/\ last'.op = "update_registration"
         /\ last'.target = r.id
         /\ last'.actor \notin StaffOf(r) \cup {r.attendee_id})
        => regs' = regs

C26_CheckInOfOthersDenied == [][C26_StepForOthers]_vars

----------------------------------------------------------------------------
\* Sessions: the provisioned identities sign in, browse the protected routes
\* and sign out.

NextSession ==
    \/ \E id \in Organizers \cup Volunteers \cup Attendees : SignIn(id)
    \/ \E found \in BOOLEAN : FinishLoading(found)
    \/ \E route \in ProtectedRoutes : OpenRoute(route)
    \/ \E ok \in BOOLEAN : fetchEvents(ok)
    \/ \E ok \in BOOLEAN : fetchTickets(ok)
    \/ fetchAnalyticsData
    \/ fetchAttendeeData
    \/ checkProfileAndSignOut
    \/ NavigationSignOut

SpecSession == InitNoEvents /\ [][NextSession]_vars

\* C12: a session that is authenticated and has finished loading without a
\* Profile is, on every protected route, about to be signed out: the
\* sign-out of checkProfileAndSignOut is enabled, so the user is not left on
\* that page.
C12_NoProfileSessionIsSignedOut ==
    (/\ session.user # Null
     /\ ~session.loading
     /\ session.profile = NoRow
     /\ session.route \in ProtectedRoutes)
    => ENABLED checkProfileAndSignOut

----------------------------------------------------------------------------
\* Policies: organizer o1 and attendee a1 come to own events, the organizers
\* ask for updates and deletes of them and for a1 as volunteer, and attendee
\* a2 books one.

PolicyActors == {"o1", "o2", "a1"}
PolicyOwners == {"o1", "a1"}

NextPolicy ==
    \/ \E actor \in PolicyActors, owner \in PolicyOwners :
          InsertEvent(actor, owner, 1, "published")
    \/ \E actor \in Organizers, e \in EventIds, p \in EventPatches : UpdateEvent(actor, e, p)
    \/ \E actor \in Organizers, e \in EventIds : DeleteEvent(actor, e)
    \/ \E e \in EventIds : handleDeleteEvent("o1", e)
    \/ \E actor \in Organizers, e \in EventIds : InsertAssignment(actor, e, "a1")
    \/ \E actor \in Organizers, e \in EventIds : DeleteAssignment(actor, e, "a1")
    \/ \E e \in EventIds : FirstRegister(<<"a2", 1>>, e)
    \/ handleRegisterInsert(<<"a2", 1>>, nextReg)

SpecPolicy == InitNoEvents /\ [][NextPolicy]_vars

\* C7: an actor whose role is attendee reads no Registration but its own
\* and no Profile but its own.
C7_AttendeeReadsOnlyOwn ==
    \A a \in Ids :
        (profiles[a] # NoRow /\ profiles[a].role = "attendee")
        => /\ \A r \in VisibleRegistrations(a) : r.attendee_id = a
           /\ VisibleProfiles(a) \subseteq {a}

EventWrites == {"update_event", "delete_event"}

C8_Step ==
    \A e \in EventIds :
        (/\ events[e] # NoRow
         /\ last' # last
         /\ last'.op \in EventWrites
         /\ last'.target = e
         /\ last'.actor # events[e].organizer_id)
        => /\ events'[e] = events[e]
           /\ last'.rows = 0
           /\ last'.error = "none"

C22_EventOwnerIsOrganizer ==
    \A e \in EventIds : events[e] # NoRow =>
        /\ profiles[events[e].organizer_id] # NoRow
        /\ profiles[events[e].organizer_id].role = "organizer"

----------------------------------------------------------------------------
\* The tickets page of attendee a1: a1 and a2 book event 1, a1 signs in,
\* opens /tickets and cancels tickets the page shows as confirmed, while
\* organizer o1 checks attendees in.

\* The Cancel Booking button of the tickets page, rendered for a ticket the
\* page holds as confirmed, pressed by the signed-in attendee; outcome tells
\* what follows: the user declines, the update fails, or it reaches the store.
CancelBookingButton(rid, outcome) ==
    /\ session.user # Null
    /\ session.route = "/tickets"
    /\ \E t \in tickets : t.id = rid /\ t.status = "confirmed"
    /\ CASE outcome = "declined" -> handleCancelBookingDeclined(session.user, rid)
         [] outcome = "failed" -> handleCancelBookingError(session.user, rid)
         [] OTHER -> handleCancelBooking(session.user, rid)

NextTickets ==
    \/ \E c \in LifecycleClients : FirstRegister(c, 1)
    \/ \E c \in LifecycleClients : handleRegisterInsert(c, nextReg)
    \/ SignIn("a1")
    \/ FinishLoading(TRUE)
    \/ OpenRoute("/tickets")
    \/ \E ok \in BOOLEAN : fetchTickets(ok)
    \/ \E rid \in RegIds : CancelBookingButton(rid, "stored")
    \/ \E rid \in RegIds : CancelBookingButton(rid, "failed")
    \/ \E rid \in RegIds : CancelBookingButton(rid, "declined")
    \/ \E rid \in RegIds : CheckIn("o1", rid)
    \/ NavigationSignOut

SpecTickets == Init /\ [][NextTickets]_vars

\* C28: while the tickets page stays mounted, a local ticket becomes
\* cancelled only in a step whose update of that registration returned
\* without error and left the stored status cancelled; a step whose update
\* reports an error changes neither the local tickets nor the registrations.
C28_Step ==
    session' = session =>
        /\ \A t \in tickets, t2 \in tickets' :
              (t.id = t2.id /\ t.status # "cancelled" /\ t2.status = "cancelled")
              => /\ last'.op = "update_registration"
                 /\ last'.target = t.id
                 /\ last'.error = "none"
                 /\ \E r \in regs' : r.id = t.id /\ r.status = "cancelled"
        /\ (last'.op = "update_registration" /\ last'.error # "none")
              => (tickets' = tickets /\ regs' = regs)

C28_LocalCancelFollowsStore == [][C28_Step]_vars

\* The last cancellation from the page failed: the ticket is still confirmed
\* on the page and in the store.
C28_Witness ==
    /\ session.route = "/tickets"
    /\ last.op = "update_registration"
    /\ last.error = "network"
    /\ \E t \in tickets : /\ t.status = "confirmed"
                           /\ t.id = last.target
                           /\ t \in regs

----------------------------------------------------------------------------
\* The events page: o1 owns the published event 1, o2 creates a draft, the
\* organizers assign volunteer v1, and an organizer, the volunteer or an
\* attendee signs in and opens /events.

NextEvents ==
    \/ InsertEvent("o2", "o2", 1, "draft")
    \/ \E o \in ReadOwners, e \in EventIds : InsertAssignment(o, e, "v1")
    \/ \E id \in {"o1", "v1", "a1"} : SignIn(id)
    \/ FinishLoading(TRUE)
    \/ OpenRoute("/events")
    \/ \E ok \in BOOLEAN : fetchEvents(ok)
    \/ NavigationSignOut

SpecEvents == Init /\ [][NextEvents]_vars

\* C30: a fetchEvents of the events page ends with the page's loading flag
\* cleared, and the events it leaves on the page are, for an organizer, the
\* organizer's own; for a volunteer, events the volunteer is assigned to;
\* for an attendee, published events.
C30_Step ==
    (/\ session.route = "/events"
     /\ session.profile # NoRow
     /\ session' # session
     /\ \A f \in {"user", "loading", "profile", "route"} : session'[f] = session[f])
    => /\ ~session'.pageLoading
       /\ \A e \in session'.events :
             /\ events[e] # NoRow
             /\ session.profile.role = "organizer" => events[e].organizer_id = session.user
             /\ session.profile.role = "volunteer" => session.user \in VolunteersOf(e)
             /\ session.profile.role = "attendee" => events[e].status = "published"
       /\ (session.profile.role = "volunteer"
            /\ \A e \in EventIds : session.user \notin VolunteersOf(e))
             => session'.events = {}

C30_FetchEventsFiltersByRole == [][C30_Step]_vars

\* Volunteer v1, assigned to the published event 1, has fetched the events
\* page: loading is cleared and the page lists event 1.
C30_Witness ==
    /\ session.user = "v1"
    /\ session.route = "/events"
    /\ ~session.pageLoading
    /\ "v1" \in VolunteersOf(1)
    /\ session.events = {1}

----------------------------------------------------------------------------
\* The route guards on every value of useAuth(): no user, attendee a1 or
\* organizer o1, loading or not, without a Profile, with the user's Profile,
\* or with a Profile whose role is none of the three (which the store's enum
\* rules out and the default branch of DashboardRouter provides for).

GuardProfiles(id) ==
    IF id = Null THEN {NoRow}
    ELSE {NoRow, profiles[id], [profiles[id] EXCEPT !.role = "admin"]}

InitGuards ==
    /\ InitTables
    /\ events = [e \in EventIds |-> NoRow]
    /\ nextEvent = 1
    /\ tickets = {}
    /\ \E id \in {Null, "a1", "o1"}, loading \in BOOLEAN, route \in AllRoutes :
         \E profile \in GuardProfiles(id) :
            session = [user |-> id, loading |-> loading, profile |-> profile,
                       route |-> route, pageLoading |-> FALSE, events |-> {}]

NextGuards ==
    \/ \E route \in AllRoutes : Goto(route)
    \/ Navigate
    \/ DashboardRouterSignOut

SpecGuards == InitGuards /\ [][NextGuards]_vars

\* C29: while authentication is loading every route renders the spinner;
\* with no user a protected route redirects to "/"; with a user a public
\* route redirects to /dashboard; and a Profile whose role is none of the
\* three is signed out by the dashboard router.
C29_RouteGuards ==
    /\ session.loading => RouteElement(session) = "Loading"
    /\ (~session.loading /\ session.user = Null /\ session.route \in ProtectedRoutes)
          => RouteElement(session) = "Navigate:/"
    /\ (~session.loading /\ session.user # Null /\ session.route \in PublicRoutes)
          => RouteElement(session) = "Navigate:/dashboard"
    /\ (/\ ~session.loading
        /\ session.user # Null
        /\ session.route = "/dashboard"
        /\ session.profile # NoRow
        /\ session.profile.role \notin Roles)
          => (RouteElement(session) = "SignOut" /\ ENABLED DashboardRouterSignOut)

\* A protected route is open while authentication is loading and a user is
\* already held: the spinner is rendered, not the page.
C29_Witness ==
    /\ session.loading
    /\ session.user # Null
    /\ session.route \in ProtectedRoutes
    /\ RouteElement(session) = "Loading"

====
